---- MODULE Spec2Model ----
(***************************************************************************)
(* Model of vllm/entrypoints/openai/serving_responses_proxy.py:            *)
(* OpenAIServingResponsesProxy, the proxy that translates Responses API    *)
(* requests to chat/completions requests and translates the replies back.  *)
(*                                                                         *)
(* Encoding of Python values:                                              *)
(*   - None is <<>> and a non-None value v is <<v>> wherever a slot may    *)
(*     hold None (None / Some below);                                      *)
(*   - a dict is a function whose DOMAIN is the set of keys present;       *)
(*   - a str is a TLA+ string, a list is a sequence;                       *)
(*   - a call that may raise returns [ok |-> TRUE, val |-> v] or           *)
(*     [ok |-> FALSE, err |-> description].                                *)
(***************************************************************************)
EXTENDS Integers, Sequences, FiniteSets, TLC

\* ---------------------------------------------------------------- bounds
MaxVal == 1        \* sampling parameters range over 0..MaxVal
MaxMsgs == 2       \* longest input list
MaxChunks == 2     \* longest underlying chunk stream
MaxCalls == 1      \* create_responses calls made on one proxy
NumRuns == 2       \* create_responses calls in flight together

\* ------------------------------------------------------- Python helpers
None == <<>>
Some(v) == <<v>>
EmptyDict == <<>>

\* d.get(k, default)
Get(d, k, default) == IF k \in DOMAIN d THEN d[k] ELSE default

Ok(v) == [ok |-> TRUE, val |-> v]
Raise(e) == [ok |-> FALSE, err |-> e]

\* HTTPStatus.INTERNAL_SERVER_ERROR.value, HTTPStatus.NOT_IMPLEMENTED.value
INTERNAL_SERVER_ERROR == 500
NOT_IMPLEMENTED == 501

\* ------------------------------------------------- request translation
SamplingFields ==
  {"temperature", "top_p", "max_tokens", "presence_penalty", "frequency_penalty", "stop"}

\* msg.model_dump(exclude_none=True): the fields whose value is not None
model_dump_exclude_none(data) ==
  [k \in {j \in DOMAIN data : data[j] # None} |-> data[k]]

\* One element of request.input (or request.input itself when it is not a
\* list): kind "dict" is a plain dict, "model" an object with model_dump,
\* "model_err" an object whose model_dump raises, "other" anything else
\* (a str, for instance).
ConvertMsg(msg) ==
  IF msg.kind = "dict" THEN Ok(<<msg.data>>)
  ELSE IF msg.kind = "model" THEN Ok(<<model_dump_exclude_none(msg.data)>>)
  ELSE IF msg.kind = "model_err" THEN Raise("model_dump failed")
  ELSE Ok(<<>>)

RECURSIVE ConvertMsgs(_)
ConvertMsgs(items) ==
  IF items = <<>> THEN Ok(<<>>)
  ELSE LET h == ConvertMsg(Head(items)) IN
       IF ~h.ok THEN h
       ELSE LET t == ConvertMsgs(Tail(items)) IN
            IF ~t.ok THEN t ELSE Ok(h.val \o t.val)

ConvertInput(input_data) ==
  IF input_data.kind = "list" THEN ConvertMsgs(input_data.items)
  ELSE ConvertMsg(input_data)

\* Variant: an unset parameter is sent with a default value.
MapOptionalDefault(request, f) ==
  IF request[f] # None THEN f :> request[f][1] ELSE f :> 0

\* if request.<f> is not None: chat_request[<f>] = request.<f>
MapOptional(request, f) ==
  IF request[f] # None THEN f :> request[f][1] ELSE EmptyDict

convert_responses_to_chat_request(request) ==
  LET messages == ConvertInput(request.input) IN
  IF ~messages.ok THEN messages
  ELSE Ok(("model" :> request.model)
          @@ ("messages" :> messages.val)
          @@ ("stream" :> (IF request.stream # None THEN request.stream[1] ELSE FALSE))
          @@ MapOptional(request, "temperature")
          @@ MapOptional(request, "top_p")
          @@ MapOptional(request, "max_tokens")
          @@ MapOptional(request, "presence_penalty")
          @@ MapOptional(request, "frequency_penalty")
          @@ MapOptional(request, "stop"))

\* ------------------------------------------------ response translation
ResponseUsage(total, prompt, completion) ==
  [total_tokens |-> total, prompt_tokens |-> prompt, completion_tokens |-> completion]

ResponseInputOutputMessage(role, content) == [role |-> role, content |-> content]

ResponsesResponse(id, created, model, output, status, usage) ==
  [id |-> id, object |-> "response", created |-> created, model |-> model,
   output |-> output, status |-> status, usage |-> usage]

\* chat_response.get("choices", [{}])[0]: indexing an empty list raises
FirstChoice(chat_response) ==
  LET choices == Get(chat_response, "choices", <<EmptyDict>>) IN
  IF choices = <<>> THEN Raise("list index out of range") ELSE Ok(choices[1])

\* usage_data = chat_response.get("usage", {}); usage_data.get(...) raises
\* when the key is present with the value None
UsageData(chat_response) ==
  LET usage_data == Get(chat_response, "usage", Some(EmptyDict)) IN
  IF usage_data = None THEN Raise("'NoneType' object has no attribute 'get'")
  ELSE Ok(usage_data[1])

convert_chat_to_responses_response(chat_response, response_id, created_at) ==
  LET choice == FirstChoice(chat_response) IN
  IF ~choice.ok THEN choice
  ELSE LET message == Get(choice.val, "message", EmptyDict)
           content == Get(message, "content", Some(""))
           output_message == ResponseInputOutputMessage("assistant", content)
           usage_data == UsageData(chat_response)
       IN IF ~usage_data.ok THEN usage_data
          ELSE Ok(ResponsesResponse(
                    response_id, created_at,
                    Get(chat_response, "model", "unknown"),
                    <<output_message>>, "completed",
                    Some(ResponseUsage(Get(usage_data.val, "total_tokens", 0),
                                       Get(usage_data.val, "prompt_tokens", 0),
                                       Get(usage_data.val, "completion_tokens", 0)))))

\* -------------------------------------------------- stream translation
\* The generator's locals after the two lead events.
InitialAccumulators ==
  [accumulated_content |-> "", total_tokens |-> 0, prompt_tokens |-> 0,
   completion_tokens |-> 0]

\* Python truthiness of a list-or-None, a str-or-None and a dict-or-None slot
TruthyList(m) == m # None /\ m[1] # <<>>
TruthyStr(m) == m # None /\ m[1] # ""
TruthyDict(m) == m # None /\ m[1] # EmptyDict

\* choices[0].get("delta", {}).get("content", "") of a chunk with choices
ContentDelta(chunk_dict) ==
  LET choices == Get(chunk_dict, "choices", Some(<<>>)) IN
  IF TruthyList(choices)
  THEN Get(Get(choices[1][1], "delta", EmptyDict), "content", Some(""))
  ELSE None

\* Variant: the delta is put in front of the accumulated text.
AccumulateContentPrepend(acc, chunk_dict) ==
  LET content_delta == ContentDelta(chunk_dict) IN
  IF TruthyStr(content_delta)
  THEN [acc EXCEPT !.accumulated_content = content_delta[1] \o @]
  ELSE acc

\* The content part of the loop body.
AccumulateContent(acc, chunk_dict) ==
  LET content_delta == ContentDelta(chunk_dict) IN
  IF TruthyStr(content_delta)
  THEN [acc EXCEPT !.accumulated_content = @ \o content_delta[1]]
  ELSE acc

\* Variant: the first usage seen is kept.
AccumulateUsageFirstWins(acc, chunk_dict) ==
  LET usage == Get(chunk_dict, "usage", None) IN
  IF TruthyDict(usage) /\ acc.total_tokens = 0
  THEN [acc EXCEPT !.total_tokens = Get(usage[1], "total_tokens", 0),
                   !.prompt_tokens = Get(usage[1], "prompt_tokens", 0),
                   !.completion_tokens = Get(usage[1], "completion_tokens", 0)]
  ELSE acc

\* The usage part of the loop body.
AccumulateUsage(acc, chunk_dict) ==
  LET usage == Get(chunk_dict, "usage", None) IN
  IF TruthyDict(usage)
  THEN [acc EXCEPT !.total_tokens = Get(usage[1], "total_tokens", 0),
                   !.prompt_tokens = Get(usage[1], "prompt_tokens", 0),
                   !.completion_tokens = Get(usage[1], "completion_tokens", 0)]
  ELSE acc

\* Variant: a text delta is passed on as a placeholder InProgress event.
ChunkEventsPlaceholder(chunk_dict) ==
  IF TruthyStr(ContentDelta(chunk_dict))
  THEN <<[type |-> "response.in_progress"]>>
  ELSE <<>>

\* The events one iteration of the loop yields: the body has no yield.
ChunkEvents(chunk_dict) == <<>>

\* One iteration of "async for chunk in chat_stream".
ProcessChunk(acc, chunk_dict) ==
  AccumulateUsage(AccumulateContent(acc, chunk_dict), chunk_dict)

\* usage_obj = ResponseUsage(...) if total_tokens > 0 else None
UsageObj(acc) ==
  IF acc.total_tokens > 0
  THEN Some(ResponseUsage(acc.total_tokens, acc.prompt_tokens, acc.completion_tokens))
  ELSE None

\* Variant: the Created event carries zero-valued usage.
CreatedEventZeroUsage(response_id, created_at, model) ==
  [type |-> "response.created",
   response |-> ResponsesResponse(response_id, created_at, model, <<>>,
                                  "in_progress", Some(ResponseUsage(0, 0, 0)))]

CreatedEvent(response_id, created_at, model) ==
  [type |-> "response.created",
   response |-> ResponsesResponse(response_id, created_at, model, <<>>,
                                  "in_progress", None)]

InProgressEvent == [type |-> "response.in_progress"]

CompletedEvent(acc, response_id, created_at, model) ==
  [type |-> "response.completed",
   response |-> ResponsesResponse(
                  response_id, created_at, model,
                  <<ResponseInputOutputMessage("assistant",
                                               Some(acc.accumulated_content))>>,
                  "completed", UsageObj(acc))]

\* ------------------------------------------------------ error responses
ErrorResponse(message, type, code) ==
  [message |-> message, type |-> type, code |-> code]

\* except Exception as e: return ErrorResponse(...)
ProxyError(e) ==
  ErrorResponse("Proxy error: " \o e, "proxy_error", INTERNAL_SERVER_ERROR)

RetrieveNotSupported ==
  ErrorResponse("Response retrieval is not supported in proxy mode",
                "not_supported", NOT_IMPLEMENTED)

CancelNotSupported ==
  ErrorResponse("Response cancellation is not supported in proxy mode",
                "not_supported", NOT_IMPLEMENTED)

\* ------------------------------------------------- not-supported calls
\* Variant: the cancellation is forwarded to the remote service.
cancel_responses_forward(response_id) ==
  [result |-> ErrorResponse("Response cancellation is not supported in proxy mode",
                            "not_supported", NOT_IMPLEMENTED),
   client_calls |-> <<"remote_cancel">>]

\* retrieve_responses / cancel_responses: the value returned and the calls
\* made on self.client while computing it.
retrieve_responses(response_id) ==
  [result |-> RetrieveNotSupported, client_calls |-> <<>>]

cancel_responses(response_id) ==
  [result |-> CancelNotSupported, client_calls |-> <<>>]

\* ------------------------------------------------------------- inputs
Values == 0..MaxVal
Optional(S) == {None} \cup {Some(v) : v \in S}

MsgData ==
  { [role |-> Some("user"), content |-> Some("Hi")],
    [role |-> Some("system"), content |-> None] }

Msgs ==
  [kind : {"dict", "model"}, data : MsgData]
    \cup { [kind |-> "model_err", data |-> EmptyDict],
           [kind |-> "other", data |-> EmptyDict] }

RECURSIVE SeqsUpTo(_, _)
SeqsUpTo(S, n) ==
  IF n = 0 THEN {<<>>}
  ELSE LET shorter == SeqsUpTo(S, n - 1) IN
       shorter \cup {Append(q, x) : q \in {r \in shorter : Len(r) = n - 1}, x \in S}

\* request.input: a list of messages or a single message
Inputs ==
  {[kind |-> "list", items |-> q] : q \in SeqsUpTo(Msgs, MaxMsgs)} \cup Msgs

StopValues == {<<>>, <<"END">>}

\* The requests of the request translator's specification: every combination
\* of the optional parameters, and every input.
SamplingRequests ==
  [model : {"m"},
   input : { [kind |-> "list",
              items |-> <<[kind |-> "dict",
                           data |-> [role |-> Some("user"), content |-> Some("Hi")]]>>] },
   stream : Optional(BOOLEAN),
   temperature : Optional(Values), top_p : Optional(Values),
   max_tokens : Optional(Values), presence_penalty : Optional(Values),
   frequency_penalty : Optional(Values), stop : Optional(StopValues)]

InputRequests ==
  [model : {"m"}, input : Inputs, stream : Optional(BOOLEAN),
   temperature : {None}, top_p : {None}, max_tokens : {Some(0)},
   presence_penalty : {None}, frequency_penalty : {None}, stop : {None}]

AllRequests == SamplingRequests \cup InputRequests

\* The requests of the orchestrator's specification: every stream flag, an
\* input that translates and one that raises, unset and set parameters.
Requests ==
  [model : {"m"},
   input : { [kind |-> "list",
              items |-> <<[kind |-> "dict",
                           data |-> [role |-> Some("user"), content |-> Some("Hi")]]>>],
             [kind |-> "model_err", data |-> EmptyDict] },
   stream : Optional(BOOLEAN),
   temperature : {Some(0)}, top_p : {None}, max_tokens : {None},
   presence_penalty : {None}, frequency_penalty : {None}, stop : {None}]

NoRequest ==
  [model |-> "", input |-> [kind |-> "list", items |-> <<>>], stream |-> None,
   temperature |-> None, top_p |-> None, max_tokens |-> None,
   presence_penalty |-> None, frequency_penalty |-> None, stop |-> None]

\* A dict key that is either absent or present with one of the values
OptKey(k, S) == {EmptyDict} \cup {k :> v : v \in S}

Content(s) == [delta |-> [content |-> Some(s)]]

\* "choices" of a chunk: an empty list, a first choice without a delta, with
\* a delta without text (None, ""), with text, and two choices of which only
\* the first counts.
ChunkChoices ==
  { Some(<<>>),
    Some(<<EmptyDict>>),
    Some(<<[delta |-> [content |-> None]]>>),
    Some(<<Content("")>>),
    Some(<<Content("a")>>),
    Some(<<Content("b"), Content("a")>>) }

\* "usage" of a chunk: None (model_dump of a chunk without usage), an empty
\* dict, zero totals, full totals, and a dict with only some of the keys.
ChunkUsages ==
  { None,
    Some(EmptyDict),
    Some(ResponseUsage(0, 0, 0)),
    Some(ResponseUsage(30, 10, 20)),
    Some([total_tokens |-> 5, prompt_tokens |-> 2]) }

\* The chunks the remote stream can deliver (chunk.model_dump() or a dict):
\* chunks without usage, usage chunks with an empty choices list, and chunks
\* with both text and usage.
Chunks ==
  OptKey("choices", ChunkChoices)
    \cup {("choices" :> Some(<<>>)) @@ ("usage" :> u) : u \in ChunkUsages}
    \cup { ("choices" :> Some(<<Content("a")>>)) @@ ("usage" :> None),
           ("choices" :> Some(<<Content("a")>>))
             @@ ("usage" :> Some(ResponseUsage(30, 10, 20))),
           ("choices" :> Some(<<Content("b"), Content("a")>>))
             @@ ("usage" :> Some([total_tokens |-> 5, prompt_tokens |-> 2])) }

ResponseChoices ==
  { <<>>,
    <<EmptyDict>>,
    <<[message |-> [content |-> Some("Hello!")]]>>,
    <<[message |-> [content |-> None]]>> }

ResponseUsages ==
  { None, Some(EmptyDict), Some(ResponseUsage(5, 2, 3)), Some([prompt_tokens |-> 2]) }

\* The non-streaming replies of the remote service
ChatResponses ==
  {c @@ u @@ m : c \in OptKey("choices", ResponseChoices),
                 u \in OptKey("usage", ResponseUsages),
                 m \in OptKey("model", {"m"})}

\* int(time.time()): the values the clock takes, which never goes back
Timestamps == {0, 1}

\* Whether a call of the logger returns (TRUE) or raises (FALSE); without a
\* logger there is no call.
LogOutcomes(hasLog) == IF hasLog THEN BOOLEAN ELSE {TRUE}

\* Variant: every call gets the same id.
ResponseIdFixed(n) == <<"resp_", 0>>

\* response_id = f"resp_{uuid.uuid4().hex}", the n-th uuid drawn
ResponseId(n) == <<"resp_", n>>

\* The ids retrieve and cancel are called with: one the proxy generated, one
\* it never generated, and a malformed one.
ProbeIds == {ResponseId(1), ResponseId(99), <<"", 0>>}

\* -------------------------------------------------------------- state
VARIABLES
  hasLogger,     \* self.request_logger is not None
  nextId,        \* number of the next uuid4 drawn
  now,           \* time.time()
  pc,            \* create_responses: "idle", "await_remote" or "returned"
  request,       \* the request of the current create_responses call
  response_id,   \* its response_id
  created_at,    \* its created_at
  chat_request,  \* None, or Some(outcome of _convert_responses_to_chat_request)
  chat_response, \* None, or Some(the dict the remote call returned)
  response,      \* None, or Some(outcome of _convert_chat_to_responses_response)
  calls,         \* the collaborator calls made by the current call, in order
  raised,        \* None, or Some(description of the exception raised in the try body)
  result,        \* what create_responses returned
  gpc,           \* position of the generator _convert_chat_stream_to_responses_stream
  acc,           \* the generator's accumulated_content and token counters
  events,        \* the events the generator has yielded, in order
  requested,     \* number of events the caller has requested (__anext__ calls)
  pulls,         \* number of chunks the generator has requested from chat_stream
  chunksRead,    \* the chunks chat_stream has delivered, in order
  chat_stream,   \* the remote stream: "none", "open", "exhausted", "failed", "closed"
  probe,         \* the last retrieve_responses / cancel_responses call and its result
  runs           \* the concurrently in-flight create_responses calls (SpecConc)

vars ==
  <<hasLogger, nextId, now, pc, request, response_id, created_at, chat_request,
    chat_response, response, calls, raised, result, gpc, acc, events, requested,
    pulls, chunksRead, chat_stream, probe, runs>>

proxyVars == <<hasLogger, nextId, now>>

callVars ==
  <<pc, request, response_id, created_at, chat_request, chat_response, response,
    calls, raised, result>>

genVars == <<gpc, acc, events, requested, pulls, chunksRead, chat_stream>>

NoResult == [kind |-> "none"]
NoProbe == [op |-> "none"]

\* The state of a proxy on which no call has been made (__init__), with the
\* arguments of the translators when one is run on its own.
Fresh(req, chat_resp, id, created) ==
  /\ nextId = 1
  /\ now = 0
  /\ pc = "idle"
  /\ request = req
  /\ response_id = id
  /\ created_at = created
  /\ chat_request = None
  /\ chat_response = chat_resp
  /\ response = None
  /\ calls = <<>>
  /\ raised = None
  /\ result = NoResult
  /\ gpc = "none"
  /\ acc = InitialAccumulators
  /\ events = <<>>
  /\ requested = 0
  /\ pulls = 0
  /\ chunksRead = <<>>
  /\ chat_stream = "none"
  /\ probe = NoProbe

Init ==
  /\ hasLogger \in BOOLEAN
  /\ Fresh(NoRequest, None, ResponseId(0), 0)
  /\ runs = <<>>

\* ---------------------------------------------------- create_responses
\* Variant: only connection errors are caught, anything else propagates.
create_responses_except_narrow(outcome) ==
  IF outcome.ok THEN outcome.val
  ELSE IF outcome.err = "Connection error."
  THEN [kind |-> "error",
        error |-> ErrorResponse("Proxy error: " \o outcome.err, "proxy_error",
                                INTERNAL_SERVER_ERROR)]
  ELSE [kind |-> "raised", err |-> outcome.err]

\* except Exception as e: the value create_responses returns for the outcome
\* of its try body.
create_responses_except(outcome) ==
  IF outcome.ok THEN outcome.val
  ELSE [kind |-> "error", error |-> ProxyError(outcome.err)]

\* Variant: the request is logged after the remote call has been made.
BeforeRemoteLogLate(req, hasLog, logOk) ==
  LET conv == convert_responses_to_chat_request(req) IN
  IF ~conv.ok
  THEN [outcome |-> conv, calls |-> <<"uuid4", "time">>]
  ELSE IF hasLog /\ ~logOk
  THEN [outcome |-> Raise("log_request failed"),
        calls |-> <<"uuid4", "time", "remote_create", "log_request">>]
  ELSE [outcome |-> Ok(conv.val),
        calls |-> <<"uuid4", "time", "remote_create">>
                    \o (IF hasLog THEN <<"log_request">> ELSE <<>>)]

\* The try body up to "await self.client.chat.completions.create": the id
\* and timestamp, the request translation, log_request, the remote call.
\* logOk is whether log_request returns (it is only called with a logger).
BeforeRemote(req, hasLog, logOk) ==
  LET conv == convert_responses_to_chat_request(req) IN
  IF ~conv.ok
  THEN [outcome |-> conv, calls |-> <<"uuid4", "time">>]
  ELSE IF hasLog /\ ~logOk
  THEN [outcome |-> Raise("log_request failed"),
        calls |-> <<"uuid4", "time", "log_request">>]
  ELSE [outcome |-> Ok(conv.val),
        calls |-> <<"uuid4", "time">>
                    \o (IF hasLog THEN <<"log_request">> ELSE <<>>)
                    \o <<"remote_create">>]

\* The non-streaming branch after the remote call returned chat_resp: the
\* response translation, log_response, return response.
AfterRemote(chat_resp, id, created, hasLog, logOk) ==
  LET conv == convert_chat_to_responses_response(chat_resp, id, created) IN
  IF ~conv.ok
  THEN [outcome |-> conv, calls |-> <<>>]
  ELSE IF hasLog /\ ~logOk
  THEN [outcome |-> Raise("log_response failed"), calls |-> <<"log_response">>]
  ELSE [outcome |-> Ok([kind |-> "response", response |-> conv.val]),
        calls |-> IF hasLog THEN <<"log_response">> ELSE <<>>]

\* Variant: the branch tests whether the key is there, not its value.
IsStreamingKeyPresent(chat_req) == "stream" \in DOMAIN chat_req

\* if chat_request.get("stream", False)
IsStreaming(chat_req) == Get(chat_req, "stream", FALSE)

\* No call is running and no event sequence is being consumed.
Quiescent ==
  \/ pc = "idle"
  \/ pc = "returned" /\ gpc \in {"none", "finished", "failed", "closed"}

\* create_responses is called and runs to its await (or to its return when
\* the try body raises before the remote call).
Start ==
  /\ Quiescent
  /\ nextId <= MaxCalls
  /\ \E req \in Requests, t \in {u \in Timestamps : u >= now},
        logOk \in LogOutcomes(hasLogger) :
       LET b == BeforeRemote(req, hasLogger, logOk) IN
       /\ request' = req
       /\ response_id' = ResponseId(nextId)
       /\ nextId' = nextId + 1
       /\ now' = t
       /\ created_at' = t
       /\ chat_request' = Some(convert_responses_to_chat_request(req))
       /\ calls' = b.calls
       /\ raised' = IF b.outcome.ok THEN None ELSE Some(b.outcome.err)
       /\ pc' = IF b.outcome.ok THEN "await_remote" ELSE "returned"
       /\ result' = IF b.outcome.ok THEN NoResult
                    ELSE create_responses_except(b.outcome)
  /\ chat_response' = None
  /\ response' = None
  /\ gpc' = "none"
  /\ acc' = InitialAccumulators
  /\ events' = <<>>
  /\ requested' = 0
  /\ pulls' = 0
  /\ chunksRead' = <<>>
  /\ chat_stream' = "none"
  /\ UNCHANGED <<hasLogger, probe, runs>>

\* The awaited remote call raises (either branch).
RemoteRaises ==
  /\ pc = "await_remote"
  /\ raised' = Some("Connection error.")
  /\ result' = create_responses_except(Raise("Connection error."))
  /\ pc' = "returned"
  /\ UNCHANGED <<runs, proxyVars, request, response_id, created_at, chat_request,
                 chat_response, response, calls, genVars, probe>>

\* Streaming branch: the remote call returns the stream and create_responses
\* returns the generator object.
RemoteReturnsStream ==
  /\ pc = "await_remote"
  /\ IsStreaming(chat_request[1].val)
  /\ result' = create_responses_except(Ok([kind |-> "stream"]))
  /\ gpc' = "created"
  /\ chat_stream' = "open"
  /\ pc' = "returned"
  /\ UNCHANGED <<runs, proxyVars, request, response_id, created_at, chat_request,
                 chat_response, response, calls, raised, acc, events, requested,
                 pulls, chunksRead, probe>>

\* Non-streaming branch: the remote call returns a chat response.
RemoteReturnsResponse ==
  /\ pc = "await_remote"
  /\ ~IsStreaming(chat_request[1].val)
  /\ \E chat_resp \in ChatResponses, logOk \in LogOutcomes(hasLogger) :
       LET a == AfterRemote(chat_resp, response_id, created_at, hasLogger, logOk) IN
       /\ chat_response' = Some(chat_resp)
       /\ response' = Some(convert_chat_to_responses_response(
                              chat_resp, response_id, created_at))
       /\ calls' = calls \o a.calls
       /\ raised' = IF a.outcome.ok THEN None ELSE Some(a.outcome.err)
       /\ result' = create_responses_except(a.outcome)
  /\ pc' = "returned"
  /\ UNCHANGED <<runs, proxyVars, request, response_id, created_at, chat_request,
                 genVars, probe>>

\* ------------------------------ _convert_chat_stream_to_responses_stream
\* Variant: the first chunk is requested before the Created event is yielded.
GenStepEager(pos, id, created, model) ==
  CASE pos = "created" ->
         [emit |-> <<CreatedEvent(id, created, model)>>, pull |-> TRUE,
          next |-> "yielded_created"]
    [] pos = "yielded_created" ->
         [emit |-> <<InProgressEvent>>, pull |-> FALSE,
          next |-> "yielded_in_progress"]
    [] pos = "yielded_in_progress" ->
         [emit |-> <<>>, pull |-> FALSE, next |-> "reading"]
    [] pos = "yielded_completed" ->
         [emit |-> <<>>, pull |-> FALSE, next |-> "finished"]

\* What the generator body does when the caller resumes it at position pos,
\* up to its next suspension: the event it yields, whether it asks
\* chat_stream for a chunk ("async for"), and where it suspends.
GenStep(pos, id, created, model) ==
  CASE pos = "created" ->
         [emit |-> <<CreatedEvent(id, created, model)>>, pull |-> FALSE,
          next |-> "yielded_created"]
    [] pos = "yielded_created" ->
         [emit |-> <<InProgressEvent>>, pull |-> FALSE,
          next |-> "yielded_in_progress"]
    [] pos = "yielded_in_progress" ->
         [emit |-> <<>>, pull |-> TRUE, next |-> "reading"]
    [] pos = "yielded_completed" ->
         [emit |-> <<>>, pull |-> FALSE, next |-> "finished"]

\* chat_stream is exhausted: the code after the loop.
OnStreamEnd(a, id, created, model) ==
  [emit |-> <<CompletedEvent(a, id, created, model)>>, next |-> "yielded_completed"]

\* Variant: a failure of chat_stream is treated as its end.
OnStreamErrorCompletes(a, id, created, model) ==
  [emit |-> <<CompletedEvent(a, id, created, model)>>, next |-> "yielded_completed"]

\* chat_stream raises inside "async for": nothing catches it.
OnStreamError(a, id, created, model) ==
  [emit |-> <<>>, next |-> "failed"]

\* The caller requests the next event (__anext__ on the generator).
Anext ==
  /\ gpc \in {"created", "yielded_created", "yielded_in_progress", "yielded_completed"}
  /\ LET g == GenStep(gpc, response_id, created_at, request.model) IN
       /\ events' = events \o g.emit
       /\ pulls' = IF g.pull THEN pulls + 1 ELSE pulls
       /\ acc' = IF gpc = "yielded_in_progress" THEN InitialAccumulators ELSE acc
       /\ gpc' = g.next
  /\ requested' = requested + 1
  /\ UNCHANGED <<runs, proxyVars, callVars, chunksRead, chat_stream, probe>>

\* chat_stream delivers a chunk: one iteration of the loop, which then asks
\* for the next chunk.
StreamChunk ==
  /\ gpc = "reading"
  /\ Len(chunksRead) < MaxChunks
  /\ \E chunk \in Chunks :
       /\ chunksRead' = Append(chunksRead, chunk)
       /\ acc' = ProcessChunk(acc, chunk)
       /\ events' = events \o ChunkEvents(chunk)
  /\ pulls' = pulls + 1
  /\ UNCHANGED <<runs, proxyVars, callVars, gpc, requested, chat_stream, probe>>

\* chat_stream is exhausted.
StreamEnd ==
  /\ gpc = "reading"
  /\ chat_stream' = "exhausted"
  /\ LET g == OnStreamEnd(acc, response_id, created_at, request.model) IN
       /\ events' = events \o g.emit
       /\ gpc' = g.next
  /\ UNCHANGED <<runs, proxyVars, callVars, acc, requested, pulls, chunksRead, probe>>

\* chat_stream raises (the remote call fails mid-stream).
StreamError ==
  /\ gpc = "reading"
  /\ chat_stream' = "failed"
  /\ LET g == OnStreamError(acc, response_id, created_at, request.model) IN
       /\ events' = events \o g.emit
       /\ gpc' = g.next
  /\ UNCHANGED <<runs, proxyVars, callVars, acc, requested, pulls, chunksRead, probe>>

\* The generator is closed at position pos (aclose by the caller, or by the
\* event loop's finalizer once the caller dropped it): GeneratorExit or the
\* cancellation is raised at the suspension point, where no try/finally and
\* no "async with" surrounds the stream, so nothing is called on chat_stream.
OnClose(pos) == [close_stream |-> FALSE, next |-> "closed"]

\* The caller abandons the event sequence before its end.
Abandon ==
  /\ gpc \in {"created", "yielded_created", "yielded_in_progress", "reading"}
  /\ LET g == OnClose(gpc) IN
       /\ gpc' = g.next
       /\ chat_stream' = IF g.close_stream THEN "closed" ELSE chat_stream
  /\ UNCHANGED <<runs, proxyVars, callVars, acc, events, requested, pulls, chunksRead,
                 probe>>

\* ------------------------------- retrieve_responses / cancel_responses
Retrieve ==
  /\ \E id \in ProbeIds :
       LET r == retrieve_responses(id) IN
       /\ probe' = [op |-> "retrieve", result |-> r.result]
       /\ calls' = calls \o r.client_calls
  /\ UNCHANGED <<runs, proxyVars, pc, request, response_id, created_at, chat_request,
                 chat_response, response, raised, result, genVars>>

Cancel ==
  /\ \E id \in ProbeIds :
       LET r == cancel_responses(id) IN
       /\ probe' = [op |-> "cancel", result |-> r.result]
       /\ calls' = calls \o r.client_calls
  /\ UNCHANGED <<runs, proxyVars, pc, request, response_id, created_at, chat_request,
                 chat_response, response, raised, result, genVars>>

Next ==
  \/ Start
  \/ RemoteRaises
  \/ RemoteReturnsStream
  \/ RemoteReturnsResponse
  \/ Anext
  \/ StreamChunk
  \/ StreamEnd
  \/ StreamError
  \/ Abandon
  \/ Retrieve
  \/ Cancel

Spec == Init /\ [][Next]_vars

\* The event loop keeps running whatever is ready to run.
SpecFair == Spec /\ WF_vars(Next)

\* ------------------------- the request translator on its own (SpecReq)
InitReq ==
  /\ hasLogger = FALSE
  /\ \E req \in AllRequests : Fresh(req, None, ResponseId(0), 0)
  /\ runs = <<>>

TranslateRequest ==
  /\ pc = "idle"
  /\ chat_request = None
  /\ chat_request' = Some(convert_responses_to_chat_request(request))
  /\ pc' = "returned"
  /\ UNCHANGED <<runs, proxyVars, request, response_id, created_at, chat_response,
                 response, calls, raised, result, genVars, probe>>

SpecReq == InitReq /\ [][TranslateRequest]_vars

\* ------------------------ the response translator on its own (SpecResp)
InitResp ==
  /\ hasLogger = FALSE
  /\ \E chat_resp \in ChatResponses, n \in 1..MaxCalls, t \in Timestamps :
       Fresh(NoRequest, Some(chat_resp), ResponseId(n), t)
  /\ runs = <<>>

TranslateResponse ==
  /\ pc = "idle"
  /\ chat_response # None
  /\ response = None
  /\ response' = Some(convert_chat_to_responses_response(
                         chat_response[1], response_id, created_at))
  /\ pc' = "returned"
  /\ UNCHANGED <<runs, proxyVars, request, response_id, created_at, chat_request,
                 chat_response, calls, raised, result, genVars, probe>>

SpecResp == InitResp /\ [][TranslateResponse]_vars

\* ------------- create_responses calls in flight together (SpecConc)
\* Every call of create_responses is a coroutine with its own frame, and
\* every streaming call has its own generator frame: runs[r] holds the locals
\* of call r. self.client, the uuid source and the clock are shared.
Runs == 1..NumRuns

\* The text by which the remote service's replies to run r are told apart.
RunText(r) == <<"a", "b", "c", "d">>[r]

\* The n-th chunk of the remote stream of run r: text and usage of its own.
ConcChunk(r, n) ==
  ("choices" :> Some(<<Content(RunText(r))>>))
    @@ ("usage" :> Some(ResponseUsage(10 * r + n, 10 * r, n)))

\* The non-streaming reply of the remote service to run r.
ConcResponse(r) ==
  ("choices" :> <<[message |-> [content |-> Some(RunText(r))]]>>)
    @@ ("usage" :> Some(ResponseUsage(10 * r + 1, 10 * r, 1)))
    @@ ("model" :> "m")

\* Requests that translate, streaming and not.
ConcRequests == {req \in Requests : req.input.kind = "list" /\ req.stream # None}

IdleRun ==
  [pc |-> "idle", request |-> NoRequest, response_id |-> ResponseId(0),
   created_at |-> 0, calls |-> <<>>, result |-> NoResult, gpc |-> "none",
   acc |-> InitialAccumulators, events |-> <<>>, chunksRead |-> <<>>]

InitConc ==
  /\ hasLogger = FALSE
  /\ Fresh(NoRequest, None, ResponseId(0), 0)
  /\ runs = [r \in Runs |-> IdleRun]

\* Variant: the accumulators are one slot shared by all generators.
AccOfShared(rs, r) == rs[1].acc

\* accumulated_content and the token counters are locals of the generator
\* frame of run r.
AccOf(rs, r) == rs[r].acc

ConcStart(r) ==
  /\ runs[r].pc = "idle"
  /\ \E req \in ConcRequests, t \in {u \in Timestamps : u >= now} :
       LET b == BeforeRemote(req, hasLogger, TRUE) IN
       /\ runs' = [runs EXCEPT ![r] =
                     [@ EXCEPT !.pc = "await_remote", !.request = req,
                               !.response_id = ResponseId(nextId),
                               !.created_at = t, !.calls = b.calls]]
       /\ now' = t
  /\ nextId' = nextId + 1
  /\ UNCHANGED <<hasLogger, callVars, genVars, probe>>

ConcReturnsStream(r) ==
  /\ runs[r].pc = "await_remote"
  /\ IsStreaming(convert_responses_to_chat_request(runs[r].request).val)
  /\ runs' = [runs EXCEPT ![r] =
                [@ EXCEPT !.pc = "returned", !.gpc = "created",
                          !.result = create_responses_except(Ok([kind |-> "stream"]))]]
  /\ UNCHANGED <<proxyVars, callVars, genVars, probe>>

ConcReturnsResponse(r) ==
  /\ runs[r].pc = "await_remote"
  /\ ~IsStreaming(convert_responses_to_chat_request(runs[r].request).val)
  /\ LET a == AfterRemote(ConcResponse(r), runs[r].response_id,
                          runs[r].created_at, hasLogger, TRUE) IN
       runs' = [runs EXCEPT ![r] =
                  [@ EXCEPT !.pc = "returned", !.calls = @ \o a.calls,
                            !.result = create_responses_except(a.outcome)]]
  /\ UNCHANGED <<proxyVars, callVars, genVars, probe>>

ConcAnext(r) ==
  /\ runs[r].gpc \in {"created", "yielded_created", "yielded_in_progress",
                      "yielded_completed"}
  /\ LET run == runs[r]
         g == GenStep(run.gpc, run.response_id, run.created_at, run.request.model)
     IN runs' = [runs EXCEPT ![r] =
                   [@ EXCEPT !.events = @ \o g.emit, !.gpc = g.next,
                             !.acc = IF run.gpc = "yielded_in_progress"
                                     THEN InitialAccumulators ELSE @]]
  /\ UNCHANGED <<proxyVars, callVars, genVars, probe>>

ConcStreamChunk(r) ==
  /\ runs[r].gpc = "reading"
  /\ Len(runs[r].chunksRead) < MaxChunks
  /\ LET chunk == ConcChunk(r, Len(runs[r].chunksRead) + 1) IN
       runs' = [runs EXCEPT ![r] =
                  [@ EXCEPT !.chunksRead = Append(@, chunk),
                            !.acc = ProcessChunk(AccOf(runs, r), chunk),
                            !.events = @ \o ChunkEvents(chunk)]]
  /\ UNCHANGED <<proxyVars, callVars, genVars, probe>>

ConcStreamEnd(r) ==
  /\ runs[r].gpc = "reading"
  /\ LET run == runs[r]
         g == OnStreamEnd(AccOf(runs, r), run.response_id, run.created_at,
                          run.request.model)
     IN runs' = [runs EXCEPT ![r] =
                   [@ EXCEPT !.events = @ \o g.emit, !.gpc = g.next]]
  /\ UNCHANGED <<proxyVars, callVars, genVars, probe>>

NextConc ==
  \E r \in Runs :
    \/ ConcStart(r)
    \/ ConcReturnsStream(r)
    \/ ConcReturnsResponse(r)
    \/ ConcAnext(r)
    \/ ConcStreamChunk(r)
    \/ ConcStreamEnd(r)

SpecConc == InitConc /\ [][NextConc]_vars

\* ====================================================== properties
IsCompleted(e) == e.type = "response.completed"

CompletedCount == Cardinality({i \in 1..Len(events) : IsCompleted(events[i])})

\* The underlying stream was exhausted without failing.
StreamExhausted == chat_stream = "exhausted"

\* C1: in every streaming run, whatever the chunks, the first event emitted
\* is Created with a response of status in_progress, empty output and no
\* usage, and the second event emitted is InProgress; each is emitted as soon
\* as the caller requests it.
C1_LeadEvents ==
  /\ requested >= 1 => Len(events) >= 1
  /\ requested >= 2 => Len(events) >= 2
  /\ Len(events) >= 1 =>
       /\ events[1].type = "response.created"
       /\ events[1].response.status = "in_progress"
       /\ events[1].response.output = <<>>
       /\ events[1].response.usage = None
  /\ Len(events) >= 2 => events[2].type = "response.in_progress"

C1_Witness ==
  /\ Len(events) = 2
  /\ gpc = "reading"
  /\ Len(chunksRead) = 2

\* The text a chunk contributes: the content delta of its first choice, and
\* nothing when it has no choices or no content delta.
DeltaText(chunk) ==
  IF /\ "choices" \in DOMAIN chunk
     /\ chunk["choices"] # None
     /\ Len(chunk["choices"][1]) >= 1
     /\ "delta" \in DOMAIN chunk["choices"][1][1]
     /\ "content" \in DOMAIN chunk["choices"][1][1]["delta"]
     /\ chunk["choices"][1][1]["delta"]["content"] # None
  THEN chunk["choices"][1][1]["delta"]["content"][1]
  ELSE ""

RECURSIVE ConcatDeltas(_)
ConcatDeltas(chunks) ==
  IF chunks = <<>> THEN "" ELSE DeltaText(Head(chunks)) \o ConcatDeltas(Tail(chunks))

\* C2: when the underlying stream is exhausted without failing, the last
\* event is Completed, it is the only Completed event, its response has
\* status completed and exactly one assistant message, and the message's
\* content is the concatenation, in arrival order, of the chunks' first-choice
\* content deltas.
C2_CompletedContent ==
  StreamExhausted =>
    /\ Len(events) >= 1
    /\ IsCompleted(events[Len(events)])
    /\ CompletedCount = 1
    /\ LET r == events[Len(events)].response IN
         /\ r.status = "completed"
         /\ Len(r.output) = 1
         /\ r.output[1].role = "assistant"
         /\ r.output[1].content = Some(ConcatDeltas(chunksRead))

C2_Witness ==
  /\ gpc = "yielded_completed"
  /\ Len(chunksRead) = 2
  /\ events[Len(events)].response.output[1].content = Some("ba")

\* A chunk carries usage totals when its usage is a non-empty dict.
CarriesUsage(chunk) ==
  /\ "usage" \in DOMAIN chunk
  /\ chunk["usage"] # None
  /\ DOMAIN chunk["usage"][1] # {}

UsageChunkIndexes == {i \in 1..Len(chunksRead) : CarriesUsage(chunksRead[i])}

LastUsageIndex == CHOOSE i \in UsageChunkIndexes : \A j \in UsageChunkIndexes : j <= i

\* A key of a usage dict, an absent key reading as 0.
Tokens(u, k) == IF k \in DOMAIN u THEN u[k] ELSE 0

\* C3: when the run completes, the Completed event's usage is that of the
\* last chunk carrying usage totals: its three totals when its total_tokens
\* is positive; absent when no chunk carries usage or when that chunk's
\* total_tokens is 0.
C3_CompletedUsage ==
  StreamExhausted =>
    LET got == events[Len(events)].response.usage IN
    IF UsageChunkIndexes = {} THEN got = None
    ELSE LET u == chunksRead[LastUsageIndex]["usage"][1] IN
         IF Tokens(u, "total_tokens") > 0
         THEN /\ got # None
              /\ got[1].total_tokens = Tokens(u, "total_tokens")
              /\ got[1].prompt_tokens = Tokens(u, "prompt_tokens")
              /\ got[1].completion_tokens = Tokens(u, "completion_tokens")
         ELSE got = None

C3_Witness ==
  /\ gpc = "yielded_completed"
  /\ UsageChunkIndexes = {1, 2}
  /\ chunksRead[1]["usage"] # chunksRead[2]["usage"]
  /\ events[Len(events)].response.usage = Some(ResponseUsage(30, 10, 20))

\* C4: once the underlying stream has failed (which happens after the two
\* lead events), the event sequence has terminated by failing, and the events
\* of the run are the two lead events: no Completed event is emitted then or
\* in any later state of the run.
C4_FailureNotCompleted ==
  chat_stream = "failed" =>
    /\ gpc = "failed"
    /\ Len(events) = 2
    /\ \A i \in 1..Len(events) : ~IsCompleted(events[i])

C4_Witness ==
  /\ chat_stream = "failed"
  /\ acc.accumulated_content = "ab"

\* C5: create_responses never raises; an exception raised in its try body
\* (request translation, logging, the remote call, response translation)
\* makes it return an ErrorResponse of type proxy_error with code 500 whose
\* message contains the exception's description.
C5_ErrorsReturned ==
  pc = "returned" =>
    /\ result.kind \in {"response", "stream", "error"}
    /\ raised # None =>
         /\ result.kind = "error"
         /\ result.error.type = "proxy_error"
         /\ result.error.code = 500
         /\ result.error.message = "Proxy error: " \o raised[1]

C5_Witness ==
  /\ pc = "returned"
  /\ raised = Some("log_response failed")
  /\ result.kind = "error"

\* C6: on the non-streaming path, when the remote call and the response
\* translation succeed, create_responses returns the translated response
\* even if the logging collaborator fails.
C6_LoggingTolerated ==
  (pc = "returned" /\ response # None /\ response[1].ok) =>
    result = [kind |-> "response", response |-> response[1].val]

\* C7: every retrieve_responses and cancel_responses call, in any state and
\* for any id, returns an ErrorResponse of type not_supported with code 501,
\* makes no call on the remote client and changes nothing else.
C7_NotSupported ==
  [][ probe' # probe =>
        /\ probe'.result.type = "not_supported"
        /\ probe'.result.code = 501
        /\ calls' = calls
        /\ UNCHANGED <<runs, proxyVars, callVars, genVars>> ]_vars

C7_Witness ==
  /\ probe.op = "cancel"
  /\ gpc = "reading"
  /\ chunksRead # <<>>

\* C8: the generator asks the underlying stream for a chunk only once the
\* caller has requested the third event: creating the sequence and consuming
\* Created and InProgress read nothing, and at most one chunk request is
\* outstanding, made while the caller's request is pending.
C8_PullDriven ==
  /\ requested <= 2 => (pulls = 0 /\ chunksRead = <<>>)
  /\ Len(chunksRead) <= pulls
  /\ pulls <= Len(chunksRead) + 1
  /\ pulls > Len(chunksRead) =>
        gpc \in {"reading", "yielded_completed", "finished", "failed", "closed"}

C8_Witness ==
  /\ requested = 2
  /\ Len(events) = 2
  /\ gpc = "yielded_in_progress"
  /\ pulls = 0

\* C9: a chat response whose choices list is present and empty is translated
\* without failing, into a response whose single output message has empty
\* content.
C9_EmptyChoices ==
  (/\ response # None
   /\ "choices" \in DOMAIN chat_response[1]
   /\ chat_response[1]["choices"] = <<>>) =>
    /\ response[1].ok
    /\ Len(response[1].val.output) = 1
    /\ response[1].val.output[1].content = Some("")

\* C10: each of the six optional parameters is present in the translated
\* chat request exactly when it is not None on the source request, and then
\* with the source value.
C10_OptionalParameters ==
  (chat_request # None /\ chat_request[1].ok) =>
    \A f \in SamplingFields :
      /\ (f \in DOMAIN chat_request[1].val) <=> (request[f] # None)
      /\ (f \in DOMAIN chat_request[1].val) => chat_request[1].val[f] = request[f][1]

C10_Witness ==
  /\ chat_request # None
  /\ chat_request[1].ok
  /\ request.temperature = Some(0)
  /\ request.stop = Some(<<>>)
  /\ request.top_p = None
  /\ DOMAIN chat_request[1].val =
       {"model", "messages", "stream", "temperature", "stop"}

\* The elements of request.input: those of the list, or the single message.
InputItems == IF request.input.kind = "list" THEN request.input.items ELSE <<request.input>>

\* The chat message an input element stands for: a dict as it is, an object
\* by its fields that are set.
NormalizedMessage(msg) ==
  IF msg.kind = "dict" THEN msg.data
  ELSE [k \in {j \in DOMAIN msg.data : msg.data[j] # None} |-> msg.data[k]]

\* C11: the translated chat request has one message per element of the
\* input, in the same order, each the normalization of its element; a single
\* message gives exactly one message.
C11_MessagesPreserved ==
  (chat_request # None /\ chat_request[1].ok) =>
    LET messages == chat_request[1].val["messages"] IN
    /\ Len(messages) = Len(InputItems)
    /\ \A i \in 1..Len(InputItems) : messages[i] = NormalizedMessage(InputItems[i])

\* The stream flag of the translated request of the current call.
TranslatedStream == chat_request[1].val["stream"]

\* C13: the translated stream flag is false when stream is unset on the
\* request and is the request's value otherwise; a call that returns without
\* an exception returns the event sequence when the translated flag is true
\* and the translated response when it is false, and whatever happens an
\* event sequence is returned only for a true flag, a response only for a
\* false one.
C13_StreamingBranch ==
  (chat_request # None /\ chat_request[1].ok) =>
    /\ TranslatedStream = (IF request.stream = None THEN FALSE ELSE request.stream[1])
    /\ pc = "returned" =>
         /\ result.kind = "stream" => TranslatedStream
         /\ result.kind = "response" => ~TranslatedStream
         /\ raised = None => result.kind = (IF TranslatedStream THEN "stream" ELSE "response")
         /\ request.stream = None => result.kind \in {"response", "error"}

C13_Witness ==
  /\ pc = "returned"
  /\ request.stream = None
  /\ result.kind = "response"

\* The totals of the source chat response, an absent one reading as 0.
SourceTokens(chat_resp, k) ==
  IF /\ "usage" \in DOMAIN chat_resp
     /\ chat_resp["usage"] # None
     /\ k \in DOMAIN chat_resp["usage"][1]
  THEN chat_resp["usage"][1][k]
  ELSE 0

\* The content of the first choice's message of the source chat response.
SourceContent(chat_resp) ==
  IF /\ "choices" \in DOMAIN chat_resp
     /\ Len(chat_resp["choices"]) >= 1
     /\ "message" \in DOMAIN chat_resp["choices"][1]
     /\ "content" \in DOMAIN chat_resp["choices"][1]["message"]
  THEN chat_resp["choices"][1]["message"]["content"]
  ELSE Some("")

\* C14: every chat response is translated, without failing, into a response
\* with status completed, the given id and timestamp, exactly one assistant
\* message holding the first choice's message content, and usage whose three
\* totals are the source's, each 0 when absent in the source.
C14_ResponseTranslation ==
  (response # None /\ chat_response # None) =>
    /\ response[1].ok
    /\ LET r == response[1].val IN
         /\ r.status = "completed"
         /\ r.id = response_id
         /\ r.created = created_at
         /\ Len(r.output) = 1
         /\ r.output[1].role = "assistant"
         /\ r.output[1].content = SourceContent(chat_response[1])
         /\ r.usage # None
         /\ \A k \in {"total_tokens", "prompt_tokens", "completion_tokens"} :
              r.usage[1][k] = SourceTokens(chat_response[1], k)

\* The remote service supplied token totals with its non-streaming reply.
ReplyHasUsage ==
  /\ chat_response # None
  /\ "usage" \in DOMAIN chat_response[1]
  /\ chat_response[1]["usage"] # None
  /\ DOMAIN chat_response[1]["usage"][1] # {}

\* C16: a response the proxy produces has usage only if the remote service
\* supplied token totals for it: the returned non-streaming response, and
\* the response of every event; a response of status in_progress has none.
C16_UsageOnlyWhenKnown ==
  /\ result.kind = "response" =>
       (result.response.usage # None => ReplyHasUsage)
  /\ \A i \in 1..Len(events) :
       "response" \in DOMAIN events[i] =>
         /\ events[i].response.status = "in_progress" => events[i].response.usage = None
         /\ events[i].response.usage # None =>
              \E j \in 1..Len(chunksRead) :
                /\ "usage" \in DOMAIN chunksRead[j]
                /\ chunksRead[j]["usage"] # None
                /\ DOMAIN chunksRead[j]["usage"][1] # {}

CallIndexes(c) == {i \in 1..Len(calls) : calls[i] = c}

Precedes(c, d) == \A i \in CallIndexes(c), j \in CallIndexes(d) : i < j

\* C18: in one create_responses call the id and the timestamp are generated
\* before the remote call, log_request is made before the remote call when a
\* logger is configured, the remote call is made at most once, and
\* log_response is made at most once, only after a non-streaming remote call
\* whose reply was translated, never on the streaming path.
C18_CallOrder ==
  /\ Cardinality(CallIndexes("uuid4")) <= 1
  /\ Cardinality(CallIndexes("remote_create")) <= 1
  /\ Cardinality(CallIndexes("log_request")) <= 1
  /\ Cardinality(CallIndexes("log_response")) <= 1
  /\ CallIndexes("remote_create") # {} =>
       /\ CallIndexes("uuid4") # {} /\ Precedes("uuid4", "remote_create")
       /\ CallIndexes("time") # {} /\ Precedes("time", "remote_create")
       /\ hasLogger => CallIndexes("log_request") # {}
  /\ Precedes("log_request", "remote_create")
  /\ ~hasLogger => CallIndexes("log_request") \cup CallIndexes("log_response") = {}
  /\ CallIndexes("log_response") # {} =>
       /\ CallIndexes("remote_create") # {} /\ Precedes("remote_create", "log_response")
       /\ response # None /\ response[1].ok
       /\ ~TranslatedStream
  /\ gpc # "none" => CallIndexes("log_response") = {}

C18_Witness ==
  /\ pc = "returned"
  /\ calls = <<"uuid4", "time", "log_request", "remote_create", "log_response">>
  /\ result.kind = "response"

\* C15: once the caller has abandoned the event sequence, the connection of
\* the underlying stream is eventually closed, and no further chunk is read
\* from it.
C15_AbandonReleases ==
  /\ (gpc = "closed") ~> (chat_stream = "closed")
  /\ [][(gpc = "closed" /\ gpc' = "closed") => chunksRead' = chunksRead]_vars

\* Number of uuids call r has drawn.
UuidDraws(r) ==
  Cardinality({i \in 1..Len(runs[r].calls) : runs[r].calls[i] = "uuid4"})

\* The ResponsesResponse values call r has handed to its caller: the returned
\* response, or the responses inside the Created and Completed events.
Describing(r) ==
  {runs[r].events[i].response :
     i \in {j \in 1..Len(runs[r].events) :
              runs[r].events[j].type \in {"response.created", "response.completed"}}}
    \cup (IF runs[r].result.kind = "response" THEN {runs[r].result.response} ELSE {})

EventTypes(r) == [i \in 1..Len(runs[r].events) |-> runs[r].events[i].type]

\* C12: every create_responses call draws its response id exactly once; the
\* non-streaming response, or the Created and the Completed event of the
\* streaming sequence, carry that id and the call's creation timestamp; and
\* the ids of different calls, in flight together or not, are pairwise
\* distinct.
C12_StableUniqueId ==
  \A r \in Runs :
    runs[r].pc # "idle" =>
      /\ UuidDraws(r) = 1
      /\ \A resp \in Describing(r) :
           /\ resp.id = runs[r].response_id
           /\ resp.created = runs[r].created_at
      /\ (runs[r].pc = "returned" /\ runs[r].gpc = "none") =>
           runs[r].result.kind = "response"
      /\ runs[r].gpc \in {"yielded_created", "yielded_in_progress", "reading"} =>
           EventTypes(r)[1] = "response.created"
      /\ runs[r].gpc \in {"yielded_completed", "finished"} =>
           EventTypes(r) =
             <<"response.created", "response.in_progress", "response.completed">>
      /\ \A s \in Runs \ {r} :
           runs[s].pc # "idle" => runs[s].response_id # runs[r].response_id

C12_Witness ==
  /\ runs[1].gpc = "reading"
  /\ runs[2].gpc = "yielded_completed"
  /\ runs[2].response_id = ResponseId(1)
  /\ runs[1].response_id = ResponseId(2)
  /\ runs[2].events[3].response.id = ResponseId(1)

\* The usage the chunks account for: that of the last chunk carrying usage
\* totals when its total is positive.
RECURSIVE UsageOf(_)
UsageOf(chunks) ==
  IF chunks = <<>> THEN None
  ELSE LET last == chunks[Len(chunks)] IN
       IF CarriesUsage(last)
       THEN LET u == last["usage"][1] IN
            IF Tokens(u, "total_tokens") > 0
            THEN Some(ResponseUsage(Tokens(u, "total_tokens"),
                                    Tokens(u, "prompt_tokens"),
                                    Tokens(u, "completion_tokens")))
            ELSE None
       ELSE UsageOf(SubSeq(chunks, 1, Len(chunks) - 1))

\* C19: with several streaming calls in flight on one proxy, their event
\* requests and chunk arrivals interleaved in any order, the Completed event
\* of each run carries exactly the concatenation of that run's own content
\* deltas and the usage of that run's own chunks, and no other event of the
\* run carries content or usage at all.
C19_RunsIsolated ==
  \A r \in Runs :
    \A i \in 1..Len(runs[r].events) :
      LET e == runs[r].events[i] IN
      /\ IsCompleted(e) =>
           /\ e.response.output =
                <<ResponseInputOutputMessage(
                    "assistant", Some(ConcatDeltas(runs[r].chunksRead)))>>
           /\ e.response.usage = UsageOf(runs[r].chunksRead)
      /\ e.type = "response.created" =>
           /\ e.response.output = <<>>
           /\ e.response.usage = None

C19_Witness ==
  /\ runs[1].gpc = "reading"
  /\ Len(runs[1].chunksRead) = 1
  /\ runs[2].gpc = "yielded_completed"
  /\ runs[2].events[3].response.output[1].content = Some("bb")
  /\ runs[2].events[3].response.usage = Some(ResponseUsage(22, 20, 2))

====
